---- MODULE Spec2Model ----
(***************************************************************************)
(* Model of python_notion_exporter.main.NotionExporter: process() fans     *)
(* _process_page out over a ThreadPoolExecutor, every page task submits an *)
(* export job, polls its status until it is terminal, downloads the        *)
(* artifact, and process() consumes the results as they complete and then  *)
(* unpacks the downloaded archives.                                        *)
(***************************************************************************)
EXTENDS Integers, Sequences, FiniteSets, TLC

\* Bounds of the model.
MaxPages == 2      \* largest number of entries of self.pages
MaxWorkers == 2    \* largest value of self.workers
MaxWaits == 2      \* largest total number of polling sleeps in one run

Pages == 1..MaxPages

VARIABLES
    numPages,    \* len(self.pages); page p of 1..numPages is the p-th item
    workers,     \* self.workers
    ids,         \* the id of each page, a sequence of characters
    urlKinds,    \* the shapes of export URL the service uses in this run
    waitBudget,  \* the number of polling sleeps after which every job is terminal
    stuck,       \* the pages whose job, once submitted, never gets terminal
    mainpc,      \* position of the thread running process()
    dispatched,  \* number of items already handed to executor.submit
    pc,          \* position of each page task
    taskId,      \* task_id local of _process_page (0: not assigned)
    submits,     \* number of enqueueTask requests issued for the page
    sentId,      \* the block id of the page's enqueueTask payload
    polls,       \* number of _get_status calls that have returned for the page
    response,    \* the latest answer _get_status gave to the page's poller
    waits,       \* number of time.sleep(1) calls made by the page's poller
    status,      \* status local of _process_page (what the poller returned)
    result,      \* the dict returned by _process_page
    raised,      \* the exception that ended the page task ("none": none)
    downloads,   \* number of calls of _download made for the page
    fileName,    \* file_name local of _download
    files,       \* pages whose download has been written to the export directory
    dir,         \* the export directory: pairs <<file name, page whose bytes it holds>>
    extracted,   \* pages whose archive has been unpacked and removed
    errorLogs,   \* number of logging.error calls per page
    warnLogs,    \* number of logging.warning calls per page
    snapshot,    \* futures already finished when as_completed was called
    finished,    \* futures finished since, in finishing order, not yet yielded
    consumed,    \* pages whose result the loop of process() has handled
    pbar,        \* the count of the tqdm progress bar
    unpacked     \* number of calls of _unpack

vars == <<numPages, workers, ids, urlKinds, waitBudget, stuck, mainpc, dispatched, pc, taskId, submits, sentId,
          polls, response, waits,
          status, result, raised, downloads, fileName, files, dir, extracted,
          errorLogs, warnLogs, snapshot, finished, consumed, pbar, unpacked>>

Active == 1..numPages

----------------------------------------------------------------------------
\* Page ids and _to_uuid_format.

Dash == "-"

\* s[a:b] of Python, for 1-based first and last positions: out-of-range
\* bounds are clamped, never an error.
Slice(s, a, b) ==
    IF a > Len(s) \/ a > b THEN << >>
    ELSE SubSeq(s, a, IF b > Len(s) THEN Len(s) ELSE b)

\* The test of line 87, for a string long enough to be indexed.
HasDashes(s) ==
    s[9] = Dash /\ s[14] = Dash /\ s[19] = Dash /\ s[24] = Dash

\* s[8], s[13], s[18], s[23] are read from left to right until one differs
\* from "-"; reading past the end of s is an IndexError.
UUIDRaises(s) ==
    \/ Len(s) < 9
    \/ /\ s[9] = Dash
       /\ \/ Len(s) < 14
          \/ /\ s[14] = Dash
             /\ \/ Len(s) < 19
                \/ s[19] = Dash /\ Len(s) < 24

\* Mutant of ToUUIDFormat: the test for an id that is dashed already is
\* missing.
ToUUIDFormatAlways(s) ==
    Slice(s, 1, 8) \o <<Dash>> \o Slice(s, 9, 12) \o <<Dash>>
        \o Slice(s, 13, 16) \o <<Dash>> \o Slice(s, 17, 20) \o <<Dash>>
        \o Slice(s, 21, Len(s))

\* _to_uuid_format(s), for an s on which it does not raise.
ToUUIDFormat(s) ==
    IF Len(s) >= 24 /\ HasDashes(s) THEN s
    ELSE Slice(s, 1, 8) \o <<Dash>> \o Slice(s, 9, 12) \o <<Dash>>
             \o Slice(s, 13, 16) \o <<Dash>> \o Slice(s, 17, 20) \o <<Dash>>
             \o Slice(s, 21, Len(s))

\* Ids the runs are given.
Block1 == <<"0", "1", "2", "3", "4", "5", "6", "7">>
Block2 == <<"8", "9", "a", "b", "c", "d", "e", "f">>
Block3 == <<"d", "e", "a", "d", "b", "e", "e", "f">>
Blocks == {Block1, Block2, Block3}

\* 32 hexadecimal characters
Hex32Ids == {a \o b \o c \o d : a \in Blocks, b \in Blocks, c \in {Block1, Block2}, d \in Blocks}

\* the same in the dashed form 8-4-4-4-12
DashedIds ==
    {a \o <<Dash>> \o Slice(b, 1, 4) \o <<Dash>> \o Slice(b, 5, 8) \o <<Dash>>
        \o Slice(c, 1, 4) \o <<Dash>> \o Slice(c, 5, 8) \o a :
        a \in {Block1, Block3}, b \in {Block2}, c \in {Block1, Block2}}

ValidId == Block1 \o Block2 \o Block1 \o Block2

ShortId == <<"a", "b", "c">>

\* ids that are neither 32 hexadecimal characters nor their dashed form
MalformedIds ==
    { ShortId,
      Block1 \o <<Dash>>,
      Block1 \o <<Dash>> \o Slice(Block2, 1, 4) \o <<Dash>> \o Block1,
      Slice(ValidId, 1, 31),
      ValidId \o <<"0">>,
      Block1 \o Block2 \o Block1 \o <<"n", "o", "t", "-", "h", "e", "x", "!">>,
      Block1 \o <<Dash>> \o Slice(Block2, 1, 4) \o <<Dash>> \o Slice(Block2, 5, 8)
          \o <<Dash>> \o Slice(Block1, 1, 4) \o <<Dash>> \o <<"x", "y">> }

\* The ids of the runs of several pages, and of the runs of one page.
RunIds == {ValidId, ShortId}

AllIds == Hex32Ids \cup DashedIds \cup MalformedIds

NoId == << >>

----------------------------------------------------------------------------
\* Values exchanged with the remote service.

NoURL == "none"

StatusRec(k, s, u, e, n) ==
    [kind |-> k, state |-> s, exportURL |-> u, error |-> e, pagesExported |-> n]

NoStatus == StatusRec("unset", "none", NoURL, "none", 0)
NullStatus == StatusRec("null", "none", NoURL, "none", 0)
MalformedStatus == StatusRec("malformed", "none", NoURL, "none", 0)
InProgress == StatusRec("record", "in_progress", NoURL, "none", 0)
SuccessNoURL == StatusRec("record", "success", NoURL, "none", 1)
SuccessURL == StatusRec("record", "success", "url", "none", 1)
Failure == StatusRec("record", "failure", NoURL, "quota", 0)
FailureURL == StatusRec("record", "failure", "url", "quota", 0)

\* The shapes of export URL the service may answer with: "url" names the
\* archive after the job, "urlSameName" tells the jobs apart only in the
\* first 100 characters of the last segment, "urlShort" has a last segment
\* of fewer than 100 characters.
URLKinds == {"url", "urlSameName", "urlShort"}

SuccessWith(u) == StatusRec("record", "success", u, "none", 1)

\* What a getTasks call can answer.
StatusResponses ==
    {r \in {NullStatus, MalformedStatus, InProgress, SuccessNoURL, SuccessURL,
             Failure, FailureURL} \cup {SuccessWith(u) : u \in URLKinds} :
        r.exportURL \in urlKinds \cup {NoURL}}

\* n times the character c
Rep(c, n) == [i \in 1..n |-> c]

PageChar(p) == <<"1", "2", "3", "4", "5", "6", "7", "8", "9">>[p]

URLBase == <<"h", "t", "t", "p", "s", ":", "/", "/", "x", "/", "f", "/">>
ExportWord == <<"E", "x", "p", "o", "r", "t">>
ZipExt == <<".", "z", "i", "p">>

\* The text of the export URL of kind u the service gives to the job of
\* page p; the URLs of different jobs differ.
URLText(u, p) ==
    CASE u = "url" ->
           URLBase \o Rep("s", 100) \o ExportWord \o <<Dash, PageChar(p)>> \o ZipExt
      [] u = "urlSameName" ->
           URLBase \o Rep(PageChar(p), 100) \o ExportWord \o ZipExt
      [] OTHER ->
           URLBase \o ExportWord \o <<Dash, PageChar(p)>> \o ZipExt

----------------------------------------------------------------------------
\* _download.

\* url.split("/")[-1]
LastSegment(s) ==
    LET slashes == {i \in 1..Len(s) : s[i] = "/"}
        last == IF slashes = {} THEN 0
                ELSE CHOOSE i \in slashes : \A j \in slashes : j <= i
    IN  Slice(s, last + 1, Len(s))

\* Mutant of FileNameOf: [-4:] instead of [100:].
FileNameLastFour(url) ==
    Slice(LastSegment(url), Len(LastSegment(url)) - 3, Len(LastSegment(url)))

\* file_name = url.split("/")[-1][100:]
FileNameOf(url) == Slice(LastSegment(url), 101, Len(LastSegment(url)))

\* The file name _download derives for the export URL of each kind and page.
FileNames == [u \in URLKinds |-> [p \in Pages |-> FileNameOf(URLText(u, p))]]

\* open(f"{self.export_directory}{self.export_name}/{file_name}", "wb") with
\* an empty file_name opens the export directory itself, which raises.
OpenRaises(name) == name = << >>

\* The directory after name has been written with the bytes of page p.
DirAfterWrite(d, name, p) == {e \in d : e[1] # name} \cup {<<name, p>>}

\* file.endswith(".zip")
EndsWithZip(name) ==
    Len(name) >= 4 /\ SubSeq(name, Len(name) - 3, Len(name)) = ZipExt

NoName == <<"?">>

\* What an enqueueTask call can answer.
ExportResponses == {"taskId", "noTaskId"}

\* Mutant of ExportRaises: response.get("taskId") instead of response["taskId"].
ExportNeverRaises(r) == FALSE

\* response["taskId"] is a KeyError when the key is missing.
ExportRaises(r) == r = "noTaskId"

\* The task id the response carries for page p (0: none).
TaskIdIn(r, p) == IF r = "taskId" THEN p ELSE 0

ResultRec(s, n, e, u, x) ==
    [state |-> s, name |-> n, error |-> e, exportURL |-> u, pagesExported |-> x]

NoResult == ResultRec("unset", 0, "none", NoURL, 0)

----------------------------------------------------------------------------
\* The worker pool.

InFlightPcs == {"export", "poll", "sleep", "download"}

InFlight == {p \in Active : pc[p] \in InFlightPcs}

Queued == {p \in Active : pc[p] = "queued"}

\* Mutant of CanStart: the pool starts a queued item whatever the number of
\* running ones.
CanStartUnbounded(p) ==
    /\ pc[p] = "queued"
    /\ \A q \in Queued : p <= q

CanStart(p) ==
    /\ pc[p] = "queued"
    /\ \A q \in Queued : p <= q
    /\ Cardinality(InFlight) < workers

\* Mutant of FinishedAfter: the waiter is not told of a finishing future.
FinishedDropped(p) == finished

\* A finishing future is handed to the waiter as_completed has installed.
FinishedAfter(p) ==
    IF mainpc = "collect" THEN Append(finished, p) ELSE finished

\* The sleeps made for the jobs that get terminal.
RECURSIVE SumWaits(_)
SumWaits(n) ==
    IF n = 0 THEN 0
    ELSE (IF n \in stuck THEN 0 ELSE waits[n]) + SumWaits(n - 1)

\* The polling loop has no bound of its own; the model stops answering a job
\* that is not in stuck with non-terminal statuses once waitBudget sleeps (at
\* most MaxWaits) have been made or begun for such jobs in the run.
TotalWaits ==
    SumWaits(MaxPages) + Cardinality({p \in Pages \ stuck : pc[p] = "sleep"})

\* The queries and sleeps of a page are counted up to waitBudget + 1; only a
\* job that never gets terminal goes beyond.
Counted(n) == IF n <= waitBudget THEN n + 1 ELSE n

----------------------------------------------------------------------------
\* _wait_for_export_completion and _process_page.

\* "if not status"
IsAbsent(s) == s.kind = "null"

\* Mutant of IsTerminal: the failure state is not tested.
IsTerminalURLOnly(s) == s.exportURL # NoURL

\* Mutant of IsTerminal: the export URL is not tested.
IsTerminalFailureOnly(s) == s.state = "failure"

\* state == "failure" or status.get("status", {}).get("exportURL")
IsTerminal(s) == s.state = "failure" \/ s.exportURL # NoURL

\* Mutant of NextStep: the failure branch is missing.
NextStepNoFailureBranch(s) ==
    IF s.exportURL # NoURL THEN "download" ELSE "warn"

\* The branch _process_page takes on the status the poller returned.
NextStep(s) ==
    IF s.state = "failure" THEN "fail"
    ELSE IF s.exportURL # NoURL THEN "download"
    ELSE "warn"

\* The dicts _process_page returns.
FailureResult(p, s) == ResultRec(s.state, p, s.error, "absent", "absent")

PageResult(p, s) == ResultRec(s.state, p, "absent", s.exportURL, s.pagesExported)

----------------------------------------------------------------------------
\* The loop of process().

\* Mutant of ResultRaises: a failure result is raised as an error too.
ResultRaisesOnFailure(p) ==
    raised[p] # "none" \/ result[p].state = "failure"

\* future.result() re-raises the exception of the page task.
ResultRaises(p) == raised[p] # "none"

\* Mutant of CanConsume: the futures are waited for in submission order.
CanConsumeInSubmissionOrder(p) ==
    /\ p \in Active
    /\ pc[p] = "done"
    /\ p \notin consumed
    /\ \A q \in Active \ consumed : p <= q

\* Mutant of CanConsume: a future already yielded may be yielded again.
CanConsumeAgain(p) ==
    /\ p \in Active
    /\ pc[p] = "done"
    /\ \/ p \in snapshot
       \/ /\ snapshot \subseteq consumed
          /\ finished # << >>
          /\ p = Head(finished)

\* as_completed yields the futures of its snapshot first (in no fixed
\* order), then the others in the order in which they finish.
CanConsume(p) ==
    /\ p \in Active
    /\ pc[p] = "done"
    /\ p \notin consumed
    /\ \/ p \in snapshot
       \/ /\ snapshot \subseteq consumed
          /\ finished # << >>
          /\ p = Head(finished)

\* Mutant of ProgressAfter: the failure test is missing.
ProgressAlways(r, n) == n + 1

\* "if result['state'] == 'failure': continue", else pbar.update(1)
ProgressAfter(r, n) == IF r.state = "failure" THEN n ELSE n + 1

\* Mutant of ShutdownMayReturn: shutdown(wait=False).
ShutdownNoWait == TRUE

\* ThreadPoolExecutor.__exit__ is shutdown(wait=True): it returns once every
\* submitted work item has run.
ShutdownMayReturn == \A p \in 1..dispatched : pc[p] = "done"

----------------------------------------------------------------------------
\* self.pages with n entries whose ids are taken from S
IdsOfRun(n, S) ==
    {f \in [Pages -> S \cup {NoId}] : \A p \in Pages : (f[p] = NoId) <=> (p > n)}

\* The state of a run when process() is entered.
InitRun ==
    /\ mainpc = "dispatch"
    /\ dispatched = 0
    /\ pc = [p \in Pages |-> "idle"]
    /\ taskId = [p \in Pages |-> 0]
    /\ submits = [p \in Pages |-> 0]
    /\ sentId = [p \in Pages |-> NoId]
    /\ polls = [p \in Pages |-> 0]
    /\ response = [p \in Pages |-> NoStatus]
    /\ waits = [p \in Pages |-> 0]
    /\ status = [p \in Pages |-> NoStatus]
    /\ result = [p \in Pages |-> NoResult]
    /\ raised = [p \in Pages |-> "none"]
    /\ downloads = [p \in Pages |-> 0]
    /\ fileName = [p \in Pages |-> NoName]
    /\ files = {}
    /\ dir = {}
    /\ extracted = {}
    /\ errorLogs = [p \in Pages |-> 0]
    /\ warnLogs = [p \in Pages |-> 0]
    /\ snapshot = {}
    /\ finished = << >>
    /\ consumed = {}
    /\ pbar = 0
    /\ unpacked = 0

Init ==
    /\ numPages \in 1..MaxPages
    /\ workers \in 1..MaxWorkers
    /\ ids \in IdsOfRun(numPages, RunIds)
    /\ urlKinds = {"url"}
    /\ waitBudget = MaxWaits
    /\ stuck = {}
    /\ InitRun

mainVars == <<mainpc, dispatched, snapshot, consumed, pbar, unpacked, extracted>>
config == <<numPages, workers, ids, urlKinds, waitBudget, stuck>>

\* executor.submit(self._process_page, item) for the next item of self.pages
Dispatch ==
    /\ mainpc = "dispatch"
    /\ dispatched < numPages
    /\ dispatched' = dispatched + 1
    /\ pc' = [pc EXCEPT ![dispatched + 1] = "queued"]
    /\ UNCHANGED <<config, mainpc, taskId, submits, sentId, polls, response, waits, status, result,
                   raised, downloads, fileName, files, dir, extracted, errorLogs, warnLogs,
                   snapshot, finished, consumed, pbar, unpacked>>

\* concurrent.futures.as_completed(futures) is entered
BeginCollect ==
    /\ mainpc = "dispatch"
    /\ dispatched = numPages
    /\ mainpc' = "collect"
    /\ snapshot' = {p \in Active : pc[p] = "done"}
    /\ UNCHANGED <<config, dispatched, pc, taskId, submits, sentId, polls, response, waits, status,
                   result, raised, downloads, fileName, files, dir, extracted, errorLogs,
                   warnLogs, finished, consumed, pbar, unpacked>>

\* A worker thread takes the oldest queued work item.
Start(p) ==
    /\ CanStart(p)
    /\ pc' = [pc EXCEPT ![p] = "export"]
    /\ UNCHANGED <<config, mainVars, taskId, submits, sentId, polls, response, waits, status, result,
                   raised, downloads, fileName, files, dir, errorLogs, warnLogs, finished>>

\* _export: the id is normalised, the enqueueTask request is sent with it and
\* returns; response["taskId"]
Export(p) ==
    /\ pc[p] = "export"
    /\ IF UUIDRaises(ids[p])
       THEN /\ raised' = [raised EXCEPT ![p] = "IndexError"]
            /\ pc' = [pc EXCEPT ![p] = "done"]
            /\ finished' = FinishedAfter(p)
            /\ UNCHANGED <<taskId, submits, sentId>>
       ELSE /\ submits' = [submits EXCEPT ![p] = @ + 1]
            /\ sentId' = [sentId EXCEPT ![p] = ToUUIDFormat(ids[p])]
            /\ \E r \in ExportResponses :
                IF ExportRaises(r)
                THEN /\ raised' = [raised EXCEPT ![p] = "KeyError"]
                     /\ pc' = [pc EXCEPT ![p] = "done"]
                     /\ finished' = FinishedAfter(p)
                     /\ UNCHANGED taskId
                ELSE /\ taskId' = [taskId EXCEPT ![p] = TaskIdIn(r, p)]
                     /\ pc' = [pc EXCEPT ![p] = "poll"]
                     /\ UNCHANGED <<raised, finished>>
    /\ UNCHANGED <<config, mainVars, polls, response, waits, status, result,
                   downloads, fileName, files, dir, errorLogs, warnLogs>>

\* One turn of the loop of _wait_for_export_completion: the getTasks request
\* returns, and on a terminal status _process_page goes on to its next
\* blocking call or to its return.
GetStatus(p) ==
    /\ pc[p] = "poll"
    /\ \E r \in StatusResponses :
        /\ IF p \in stuck
           THEN r \in {NullStatus, InProgress, SuccessNoURL}
           ELSE (r.kind # "malformed" /\ (IsAbsent(r) \/ ~IsTerminal(r)))
                    => TotalWaits < waitBudget
        /\ polls' = [polls EXCEPT ![p] = Counted(@)]
        /\ response' = [response EXCEPT ![p] = r]
        /\ IF r.kind = "malformed"
           THEN \* .json()["results"] / response[0] raises
                /\ raised' = [raised EXCEPT ![p] = "KeyError"]
                /\ pc' = [pc EXCEPT ![p] = "done"]
                /\ finished' = FinishedAfter(p)
                /\ UNCHANGED <<status, result, errorLogs, warnLogs>>
           ELSE IF IsAbsent(r) \/ ~IsTerminal(r)
           THEN /\ pc' = [pc EXCEPT ![p] = "sleep"]
                /\ UNCHANGED <<status, result, raised, errorLogs, warnLogs,
                               finished>>
           ELSE /\ status' = [status EXCEPT ![p] = r]
                /\ UNCHANGED raised
                /\ CASE NextStep(r) = "fail" ->
                          /\ errorLogs' = [errorLogs EXCEPT ![p] = @ + 1]
                          /\ result' = [result EXCEPT ![p] = FailureResult(p, r)]
                          /\ pc' = [pc EXCEPT ![p] = "done"]
                          /\ finished' = FinishedAfter(p)
                          /\ UNCHANGED warnLogs
                     [] NextStep(r) = "download" ->
                          /\ pc' = [pc EXCEPT ![p] = "download"]
                          /\ UNCHANGED <<result, errorLogs, warnLogs, finished>>
                     [] OTHER ->
                          /\ warnLogs' = [warnLogs EXCEPT ![p] = @ + 1]
                          /\ result' = [result EXCEPT ![p] = PageResult(p, r)]
                          /\ pc' = [pc EXCEPT ![p] = "done"]
                          /\ finished' = FinishedAfter(p)
                          /\ UNCHANGED errorLogs
    /\ UNCHANGED <<config, mainVars, taskId, submits, sentId, waits, downloads,
                   fileName, files, dir>>

\* time.sleep(1) returns and the loop goes round
Sleep(p) ==
    /\ pc[p] = "sleep"
    /\ waits' = [waits EXCEPT ![p] = Counted(@)]
    /\ pc' = [pc EXCEPT ![p] = "poll"]
    /\ UNCHANGED <<config, mainVars, taskId, submits, sentId, polls, response, status, result, raised,
                   downloads, fileName, files, dir, errorLogs, warnLogs, finished>>

\* _download: the GET request returns and the file is written, or open() or
\* write() raises; then _process_page returns its dict
Download(p) ==
    /\ pc[p] = "download"
    /\ LET name == FileNames[status[p].exportURL][p]
       IN  /\ fileName' = [fileName EXCEPT ![p] = name]
           /\ IF OpenRaises(name)
              THEN /\ raised' = [raised EXCEPT ![p] = "IsADirectoryError"]
                   /\ UNCHANGED <<files, dir, result>>
              ELSE \E written \in BOOLEAN :
                   IF written
                   THEN /\ files' = files \cup {p}
                        /\ dir' = DirAfterWrite(dir, name, p)
                        /\ result' = [result EXCEPT ![p] = PageResult(p, status[p])]
                        /\ UNCHANGED raised
                   ELSE /\ raised' = [raised EXCEPT ![p] = "OSError"]
                        /\ UNCHANGED <<files, dir, result>>
    /\ downloads' = [downloads EXCEPT ![p] = @ + 1]
    /\ pc' = [pc EXCEPT ![p] = "done"]
    /\ finished' = FinishedAfter(p)
    /\ UNCHANGED <<config, mainVars, taskId, submits, sentId, polls, response, waits, status,
                   errorLogs, warnLogs>>

\* One turn of "for future in as_completed(futures)": future.result() either
\* raises, which leaves the loop and enters ThreadPoolExecutor.__exit__, or
\* gives the result, which is counted; after the last future the with blocks
\* are left.
Consume(p) ==
    /\ mainpc = "collect"
    /\ CanConsume(p)
    /\ finished' = SelectSeq(finished, LAMBDA q : q # p)
    /\ IF ResultRaises(p)
       THEN /\ mainpc' = "shutdown"
            /\ UNCHANGED <<consumed, pbar>>
       ELSE /\ consumed' = consumed \cup {p}
            /\ pbar' = ProgressAfter(result[p], pbar)
            /\ mainpc' = IF consumed' = Active THEN "unpack" ELSE "collect"
    /\ UNCHANGED <<config, dispatched, pc, taskId, submits, sentId, polls, response, waits, status,
                   result, raised, downloads, fileName, files, dir, extracted, errorLogs,
                   warnLogs, snapshot, unpacked>>

\* ThreadPoolExecutor.__exit__ with the exception pending: shutdown(wait=True)
\* returns and the exception leaves process()
ExecutorExit ==
    /\ mainpc = "shutdown"
    /\ ShutdownMayReturn
    /\ mainpc' = "raised"
    /\ UNCHANGED <<config, dispatched, pc, taskId, submits, sentId, polls, response, waits, status,
                   result, raised, downloads, fileName, files, dir, extracted, errorLogs,
                   warnLogs, snapshot, finished, consumed, pbar, unpacked>>

\* self._unpack(): every archive of the directory is unpacked and removed
Unpack ==
    /\ mainpc = "unpack"
    /\ unpacked' = unpacked + 1
    /\ extracted' = extracted \cup {e[2] : e \in {d \in dir : EndsWithZip(d[1])}}
    /\ dir' = {d \in dir : ~EndsWithZip(d[1])}
    /\ mainpc' = "returned"
    /\ UNCHANGED <<config, dispatched, pc, taskId, submits, sentId, polls, response, waits, status,
                   result, raised, downloads, fileName, files, errorLogs,
                   warnLogs, snapshot, finished, consumed, pbar>>

Next ==
    \/ Dispatch
    \/ BeginCollect
    \/ \E p \in Pages : Start(p)
    \/ \E p \in Pages : Export(p)
    \/ \E p \in Pages : GetStatus(p)
    \/ \E p \in Pages : Sleep(p)
    \/ \E p \in Pages : Download(p)
    \/ \E p \in Pages : Consume(p)
    \/ ExecutorExit
    \/ Unpack

Spec == Init /\ [][Next]_vars

\* The runs of one page, with any id.
InitOnePage ==
    /\ numPages = 1
    /\ workers = 1
    /\ ids \in IdsOfRun(1, AllIds)
    /\ urlKinds = URLKinds
    /\ waitBudget = MaxWaits
    /\ stuck = {}
    /\ InitRun

SpecOnePage == InitOnePage /\ [][Next]_vars

\* The runs with well-formed ids and at most one wait, with any shape of
\* export URL.
InitFiles ==
    /\ numPages \in 1..MaxPages
    /\ workers \in 1..MaxWorkers
    /\ ids = [p \in Pages |-> IF p <= numPages THEN ValidId ELSE NoId]
    /\ urlKinds = URLKinds
    /\ waitBudget = 1
    /\ stuck = {}
    /\ InitRun

SpecFiles == InitFiles /\ [][Next]_vars

\* The runs with well-formed ids in which the job of at most one page, the
\* one in stuck, answers every status query with a well-formed status that is
\* not terminal, and the other jobs get terminal at the first query.
InitLive ==
    /\ numPages \in 1..MaxPages
    /\ workers \in 1..MaxWorkers
    /\ ids = [p \in Pages |-> IF p <= numPages THEN ValidId ELSE NoId]
    /\ urlKinds = {"url"}
    /\ waitBudget = 0
    /\ stuck \in {{}} \cup {{p} : p \in 1..numPages}
    /\ InitRun

\* The steps of the thread that runs process().
MainStep ==
    \/ Dispatch
    \/ BeginCollect
    \/ \E p \in Pages : Consume(p)
    \/ ExecutorExit
    \/ Unpack

\* The steps of the work item of page p: a pool thread that is free takes
\* the oldest queued item, and a thread that runs an item goes on running.
TaskStep(p) ==
    \/ Start(p)
    \/ Export(p)
    \/ GetStatus(p)
    \/ Sleep(p)
    \/ Download(p)

\* Every remote call returns, every sleep ends and every thread that can
\* run does run.
Fairness ==
    /\ WF_vars(MainStep)
    /\ \A p \in Pages : WF_vars(TaskStep(p))

SpecLive == InitLive /\ [][Next]_vars /\ Fairness

----------------------------------------------------------------------------
TypeOK ==
    /\ numPages \in 1..MaxPages
    /\ workers \in 1..MaxWorkers
    /\ mainpc \in {"dispatch", "collect", "shutdown", "unpack", "returned", "raised"}
    /\ dispatched \in 0..numPages
    /\ \A p \in Pages : pc[p] \in {"idle", "queued", "done"} \cup InFlightPcs
    /\ TotalWaits <= waitBudget
    /\ waitBudget <= MaxWaits
    /\ stuck \subseteq Active
    /\ \A p \in Pages : polls[p] <= waitBudget + 1 /\ waits[p] <= waitBudget + 1

----------------------------------------------------------------------------
\* Properties.

\* C1: an error raised by a step of a page task (no taskId in the submit
\* response, a malformed status response, a failed write) is turned into a
\* failure result of that page, and process() does not raise.
C1_ErrorsCaptured ==
    mainpc \in {"returned", "raised"} =>
        /\ mainpc = "returned"
        /\ \A p \in Active : result[p] # NoResult

\* C2: when every page's job ends either in the state failure or in a
\* success with an export URL whose download is written, process() does not
\* raise, every succeeding page's artifact is downloaded, and exactly one
\* failure is logged per failing page and none for the others.
C2_PartialFailure ==
    (\A p \in Active : raised[p] = "none") =>
        /\ mainpc \notin {"shutdown", "raised"}
        /\ \A p \in Active : pc[p] = "done" =>
              IF result[p].state = "failure"
              THEN errorLogs[p] = 1 /\ downloads[p] = 0
              ELSE /\ errorLogs[p] = 0
                   /\ downloads[p] = 1
                   /\ p \in files

C2_Witness ==
    /\ mainpc = "returned"
    /\ \E p, q \in Active :
          /\ result[p].state = "failure"
          /\ errorLogs[p] = 1
          /\ result[q].state = "success"
          /\ q \in files

\* C3: the number of page tasks in flight never exceeds workers.
C3_InFlightBounded ==
    Cardinality({p \in Active : pc[p] \in {"export", "poll", "sleep", "download"}})
        <= workers

\* With workers >= number of pages, all pages are in flight at once.
C3_Witness ==
    /\ numPages >= 2
    /\ workers >= numPages
    /\ \A p \in Active : pc[p] \in {"export", "poll", "sleep", "download"}

\* C4: unpack runs only after every page task has finished, and in every
\* run in which all page tasks finish it has run exactly once when process()
\* ends.
C4_UnpackOnceAfterAll ==
    /\ (unpacked > 0 \/ mainpc = "unpack") => \A p \in Active : pc[p] = "done"
    /\ unpacked <= 1
    /\ mainpc \in {"returned", "raised"} => unpacked = 1

\* C5: while process() collects results, a finished result that has not been
\* handled yet can always be handed to the loop: it never waits for a task
\* that is still queued or in flight.
C5_CompletionOrder ==
    (mainpc = "collect" /\ \E p \in Active : pc[p] = "done" /\ p \notin consumed)
        => \E q \in Active : CanConsume(q)

\* A later page's result has been handled while an earlier page is in flight.
C5_Witness ==
    \E p, q \in Active :
        /\ p < q
        /\ q \in consumed
        /\ pc[p] \in {"export", "poll", "sleep", "download"}

\* C6: process() has not ended, by return or by raise, while a dispatched page
\* task is unfinished; every task has run to its outcome by then.
C6_EndsAfterAllTasks ==
    mainpc \in {"unpack", "returned", "raised"} =>
        \A p \in Active :
            /\ pc[p] = "done"
            /\ result[p] # NoResult \/ raised[p] # "none"

\* process() raised for one page, and another page finished with a success
\* after the exception had left the loop.
C6_Witness ==
    /\ mainpc = "raised"
    /\ \E p, q \in Active :
          /\ raised[p] # "none"
          /\ result[q].state = "success"
          /\ q \notin snapshot
          /\ q \notin consumed
          /\ \A i \in 1..Len(finished) : finished[i] # q

\* C7: the progress count is the number of non-failure results handled so
\* far, and never exceeds the number of pages.
C7_Progress ==
    /\ pbar = Cardinality({p \in consumed : result[p].state # "failure"})
    /\ pbar <= numPages

C7_Witness ==
    /\ pbar = 1
    /\ \E p, q \in consumed :
          result[p].state = "failure" /\ result[q].state = "success"

\* C8: once the status of a page's job has the state failure, the page task
\* has returned a failure result carrying the reported error, and _download
\* has not been and is not called for the page.
C8_FailureNoDownload ==
    \A p \in Active :
        (response[p].kind = "record" /\ response[p].state = "failure") =>
            /\ pc[p] = "done"
            /\ result[p].state = "failure"
            /\ result[p].error = response[p].error
            /\ downloads[p] = 0
            /\ p \notin files \cup extracted

\* A failure status that carries an export URL all the same.
C8_Witness ==
    \E p \in Active :
        /\ response[p] = FailureURL
        /\ result[p].state = "failure"
        /\ result[p].error = "quota"

\* C9: the poller waits once after every response that is absent or not
\* terminal and after no other, and what it returns is the response it got
\* last, which is terminal.
C9_AwaitCompletion ==
    \A p \in Active :
        LET terminal(s) ==
                s.kind = "record" /\ (s.state = "failure" \/ s.exportURL # NoURL)
        IN  /\ pc[p] = "sleep" => ~terminal(response[p]) /\ waits[p] = polls[p] - 1
            /\ pc[p] = "poll" => waits[p] = polls[p]
            /\ status[p] # NoStatus =>
                  /\ status[p] = response[p]
                  /\ terminal(status[p])
                  /\ waits[p] = polls[p] - 1

\* A terminal status returned as the third response, after two waits.
C9_Witness ==
    \E p \in Active :
        status[p] = SuccessURL /\ polls[p] = 3 /\ waits[p] = 2

\* C10: once the status of a page's job has the state success and no export
\* URL, the page task has returned a non-failure result without exportURL,
\* with one warning logged and no download.
C10_SuccessWithoutURL ==
    \A p \in Active :
        response[p] = SuccessNoURL =>
            /\ pc[p] = "done"
            /\ result[p].state = "success"
            /\ result[p].exportURL = NoURL
            /\ warnLogs[p] = 1
            /\ downloads[p] = 0

----------------------------------------------------------------------------
\* Properties of the ids and of the file names.

HexChars ==
    {"0", "1", "2", "3", "4", "5", "6", "7", "8", "9", "a", "b", "c", "d", "e", "f"}

IsHex32(s) == Len(s) = 32 /\ \A i \in 1..32 : s[i] \in HexChars

IsDashed36(s) ==
    /\ Len(s) = 36
    /\ \A i \in 1..36 :
          IF i \in {9, 14, 19, 24} THEN s[i] = Dash ELSE s[i] \in HexChars

\* C11: for a page whose id is neither 32 hexadecimal characters nor their
\* dashed form, no enqueueTask, getTasks or download request is ever issued,
\* and its task ends with an error.
C11_MalformedIdNoRequest ==
    \A p \in Active :
        ~(IsHex32(ids[p]) \/ IsDashed36(ids[p])) =>
            /\ submits[p] = 0
            /\ polls[p] = 0
            /\ downloads[p] = 0
            /\ pc[p] = "done" => raised[p] # "none"

\* C12: the file name _download derives is the last "/"-separated segment of
\* the URL without its first 100 characters; for a segment of fewer than 100
\* characters it is empty, and saving under it raises no error.
C12_FileName ==
    \A p \in Active :
        downloads[p] > 0 =>
            LET seg == LastSegment(URLText(status[p].exportURL, p))
            IN  /\ fileName[p] = Slice(seg, 101, Len(seg))
                /\ Len(seg) < 100 =>
                      fileName[p] = << >> /\ raised[p] # "IsADirectoryError"

\* C13: the id sent for a page whose id is 32 hexadecimal characters has 36
\* characters, dashes exactly at the positions 8, 13, 18 and 23 (counted from
\* 0), the characters of the id in their order in between, and normalising
\* it again leaves it as it is.
C13_Normalization ==
    \A p \in Active :
        (submits[p] > 0 /\ IsHex32(ids[p])) =>
            /\ Len(sentId[p]) = 36
            /\ \A i \in 1..36 : (sentId[p][i] = Dash) <=> (i \in {9, 14, 19, 24})
            /\ SelectSeq(sentId[p], LAMBDA c : c # Dash) = ids[p]
            /\ ~UUIDRaises(sentId[p])
            /\ ToUUIDFormat(sentId[p]) = sentId[p]

C13_Witness ==
    \E p \in Active :
        /\ ids[p] = Block3 \o Block2 \o Block1 \o Block3
        /\ sentId[p] = Block3 \o <<Dash>> \o Slice(Block2, 1, 4) \o <<Dash>>
                         \o Slice(Block2, 5, 8) \o <<Dash>> \o Slice(Block1, 1, 4)
                         \o <<Dash>> \o Slice(Block1, 5, 8) \o Block3

----------------------------------------------------------------------------
\* Properties of the order of the requests.

\* C14: a page's job is queried, or about to be, only once its submit has
\* returned its task id, and its download is started only once the poller has
\* returned a terminal status, the last response of the job.
C14_PageOrder ==
    \A p \in Active :
        /\ (polls[p] > 0 \/ pc[p] \in {"poll", "sleep"}) =>
              submits[p] = 1 /\ taskId[p] = p
        /\ (downloads[p] > 0 \/ pc[p] = "download") =>
              /\ polls[p] > 0
              /\ status[p] = response[p]
              /\ status[p].kind = "record"
              /\ status[p].state = "failure" \/ status[p].exportURL # NoURL

\* A later page has been submitted, queried and downloaded while an earlier
\* page has not been submitted yet.
C14_Witness ==
    \E p, q \in Active :
        /\ p < q
        /\ pc[p] = "export"
        /\ submits[p] = 0
        /\ downloads[q] = 1
        /\ q \in files
        /\ polls[q] > 1

\* C15: after a status query of a job has been answered with a terminal
\* status (state failure, or an export URL), no step of the run queries that
\* job again.
C15_NoPollAfterTerminal ==
    [][\A p \in Active :
          (/\ response[p].kind = "record"
           /\ response[p].state = "failure" \/ response[p].exportURL # NoURL)
              => polls'[p] = polls[p]]_vars

\* One job got its terminal status at its second query, and the run has gone
\* on to its end with another job queried meanwhile.
C15_Witness ==
    /\ mainpc = "returned"
    /\ \E p, q \in Active :
          /\ p # q
          /\ response[p] = SuccessURL
          /\ polls[p] = 2
          /\ polls[q] > 0

----------------------------------------------------------------------------
\* Properties of the jobs and their results.

\* A result once returned stays as it is, and the loop of process() takes a
\* result only from a page it has not taken one from before.
ResultsOnce ==
    /\ \A p \in Active : result[p] # NoResult => result'[p] = result[p]
    /\ \A p \in Active : submits'[p] >= submits[p]
    /\ consumed \subseteq consumed'
    /\ pbar' # pbar =>
          \E p \in Active \ consumed :
              consumed' = consumed \cup {p} /\ result[p] # NoResult

\* C16 as stated: every entry of pages whose task has passed _export has had
\* exactly one enqueueTask request sent, none has more than one, a page has at
\* most one result and the loop takes it at most once.
C16_ExactlyOneJob ==
    /\ [](\A p \in Active :
            /\ submits[p] <= 1
            /\ pc[p] \in {"poll", "sleep", "download", "done"} => submits[p] = 1)
    /\ [][ResultsOnce]_vars

\* C16, amended: no entry has more than one enqueueTask request sent, and an
\* entry whose task has passed _export has had exactly one if its id has at
\* least 24 characters; a page has at most one result and the loop takes it
\* at most once.
C16_AtMostOneJob ==
    /\ [](\A p \in Active :
            /\ submits[p] <= 1
            /\ (pc[p] \in {"poll", "sleep", "download", "done"} /\ Len(ids[p]) >= 24)
                  => submits[p] = 1)
    /\ [][ResultsOnce]_vars

\* process() has ended with no request sent for a page whose id is too short
\* and one request sent for a page whose result the loop has taken.
C16_Witness ==
    /\ mainpc = "raised"
    /\ \E p, q \in Active :
          /\ ids[p] = ShortId
          /\ submits[p] = 0
          /\ submits[q] = 1
          /\ result[q] # NoResult
          /\ q \in consumed

----------------------------------------------------------------------------
\* Properties of the export directory.

\* C17 as stated: the pages whose download has been written have pairwise
\* different file names, and until the archives are unpacked the directory
\* holds every such page's file with that page's content.
C17_DistinctPaths ==
    /\ \A p, q \in files : p # q => fileName[p] # fileName[q]
    /\ unpacked = 0 => \A p \in files : <<fileName[p], p>> \in dir

\* C17, amended: until the archives are unpacked, the directory holds with
\* its own content the file of every written page whose file name (the last
\* segment of its export URL without the first 100 characters) differs from
\* that of every other written page.
C17_DistinctNamesKept ==
    LET name(p) ==
            LET url == URLText(status[p].exportURL, p)
                slashes == {i \in 1..Len(url) : url[i] = "/"}
                from == IF slashes = {} THEN 1
                        ELSE 1 + CHOOSE i \in slashes : \A j \in slashes : j <= i
            IN  Slice(url, from + 100, Len(url))
    IN  unpacked = 0 =>
            \A p \in files :
                (\A q \in files \ {p} : name(q) # name(p)) => <<name(p), p>> \in dir

\* Two pages have been downloaded under different names, one named after its
\* job and one not, and both files are in the directory when the tasks are
\* over.
C17_Witness ==
    /\ mainpc = "unpack"
    /\ \E p, q \in files :
          /\ status[p].exportURL = "url"
          /\ status[q].exportURL = "urlSameName"
          /\ fileName[p] # fileName[q]
          /\ <<fileName[p], p>> \in dir
          /\ <<fileName[q], q>> \in dir

----------------------------------------------------------------------------
\* Termination.

\* C18: process() ends, by return or by raise, unless a job that never gets
\* terminal has been submitted; once such a job has been submitted, process()
\* has not ended and the page task of the job is in its polling loop, where
\* it sleeps again and again for ever.
C18_Liveness ==
    /\ <>(\/ mainpc \in {"returned", "raised"}
          \/ \E p \in stuck : taskId[p] # 0)
    /\ \A p \in Pages :
          (p \in stuck /\ taskId[p] # 0) ~>
              (pc[p] = "sleep" /\ mainpc \notin {"returned", "raised"})

\* process() has returned in a run of more pages than workers without a job
\* that never gets terminal.
C18_Witness ==
    /\ mainpc = "returned"
    /\ stuck = {}
    /\ workers < numPages
    /\ \E p \in Active : p > workers /\ polls[p] = 1 /\ result[p].state = "success"

====
